---- MODULE Spec2Model ----
(***************************************************************************)
(* Model of the copy/move engine, the conflict resolver, the selection     *)
(* reducer and the clipboard of the file manager plugin.                   *)
(*                                                                         *)
(* A path is a sequence of one-character strings, so that the string       *)
(* functions of the source (split, lastIndexOf, slice, replace) are        *)
(* computed as the source computes them.                                   *)
(***************************************************************************)
EXTENDS Integers, Sequences, FiniteSets, TLC

NULL == "null"

DIR_SEP == "/"

EXT_SEP == "."

SKIP == "SKIP"

OVERWRITE == "OVERWRITE"

KEEP == "KEEP"

PROMPT == "PROMPT"

COPY == "Copy"

MOVE == "Move"

FileConflictResolution == {SKIP, OVERWRITE, KEEP}

FileConflictOption == {SKIP, OVERWRITE, KEEP, PROMPT}

FileOperation == {COPY, MOVE}

(***************************************************************************)
(* String primitives of the host language.                                 *)
(***************************************************************************)

\* String.prototype.lastIndexOf, 1-based; 0 when the character is absent.
LastIndexOf(s, c) ==
    LET idx == {i \in 1..Len(s) : s[i] = c}
    IN  IF idx = {} THEN 0 ELSE CHOOSE i \in idx : \A j \in idx : j <= i

\* String.prototype.startsWith.
StartsWith(s, prefix) ==
    /\ Len(prefix) <= Len(s)
    /\ SubSeq(s, 1, Len(prefix)) = prefix

RECURSIVE SplitFrom(_, _, _)
SplitFrom(s, i, cur) ==
    IF i > Len(s) THEN <<cur>>
    ELSE IF s[i] = DIR_SEP THEN <<cur>> \o SplitFrom(s, i + 1, <<>>)
    ELSE SplitFrom(s, i + 1, Append(cur, s[i]))

\* path.split(DIR_SEP)
Split(s) == SplitFrom(s, 1, <<>>)

RECURSIVE Join(_)
\* parts.join(DIR_SEP)
Join(parts) ==
    IF Len(parts) = 0 THEN <<>>
    ELSE IF Len(parts) = 1 THEN parts[1]
    ELSE parts[1] \o <<DIR_SEP>> \o Join(Tail(parts))

Digits == <<"0", "1", "2", "3", "4", "5", "6", "7", "8", "9">>

RECURSIVE NumToStr(_)
\* `${i}`: the decimal digits of a non-negative integer.
NumToStr(i) ==
    IF i < 10 THEN <<Digits[i + 1]>>
    ELSE NumToStr(i \div 10) \o <<Digits[(i % 10) + 1]>>

\* path.split(DIR_SEP).length
Depth(path) == Len(Split(path))

\* path.split(DIR_SEP).pop()
BaseName(path) == Split(path)[Depth(path)]

(***************************************************************************)
(* Helper functions of file_manager.ts.                                    *)
(***************************************************************************)

\* Mutant: the suffix goes after the extension.
addSuffixAfterExtension(path, suffix) == path \o suffix

addSuffixBeforeExtension(path, suffix) ==
    LET slashIndex == LastIndexOf(path, DIR_SEP)
        dotIndex   == LastIndexOf(path, EXT_SEP)
    IN  IF dotIndex > slashIndex
        THEN SubSeq(path, 1, dotIndex - 1) \o suffix \o <<EXT_SEP>>
                 \o SubSeq(path, dotIndex + 1, Len(path))
        ELSE path \o suffix

\* Mutant: the loop stops one short and misses the parent.
getAllAncestorsNoParent(path) ==
    LET parts == Split(path)
    IN  [i \in 1..(Len(parts) - 2) |-> Join(SubSeq(parts, 1, i))]

getAllAncestors(path) ==
    LET parts == Split(path)
    IN  [i \in 1..(Len(parts) - 1) |-> Join(SubSeq(parts, 1, i))]

RECURSIVE genLoop(_, _, _, _, _)

\* Mutant: the numbering starts one too high.
genLoopSkipsOne(fileItems, path, dealWithExt, i, newPath) ==
    IF newPath \in fileItems
    THEN genLoop(fileItems, path, dealWithExt, i + 2,
                 IF dealWithExt
                 THEN addSuffixBeforeExtension(path, <<" ">> \o NumToStr(i + 1))
                 ELSE path \o <<" ">> \o NumToStr(i + 1))
    ELSE newPath

genLoop(fileItems, path, dealWithExt, i, newPath) ==
    IF newPath \in fileItems
    THEN genLoop(fileItems, path, dealWithExt, i + 1,
                 IF dealWithExt
                 THEN addSuffixBeforeExtension(path, <<" ">> \o NumToStr(i))
                 ELSE path \o <<" ">> \o NumToStr(i))
    ELSE newPath

\* Mutant: one attempt, " 1", without a second existence check.
genNonExistingPathOnce(fileItems, path, dealWithExt) ==
    IF path \in fileItems
    THEN IF dealWithExt
         THEN addSuffixBeforeExtension(path, <<" ">> \o NumToStr(1))
         ELSE path \o <<" ">> \o NumToStr(1)
    ELSE path

\* fileItems is the set of paths the file explorer holds an item for.
genNonExistingPath(fileItems, path, dealWithExt) ==
    genLoop(fileItems, path, dealWithExt, 1, path)

RECURSIVE Dedup(_)
\* Insertion order of a Set built from a list: first occurrences only.
Dedup(seq) ==
    IF Len(seq) = 0 THEN <<>>
    ELSE LET rest == Dedup(SubSeq(seq, 1, Len(seq) - 1))
             last == seq[Len(seq)]
         IN  IF \E i \in 1..Len(rest) : rest[i] = last
             THEN rest ELSE Append(rest, last)

RECURSIVE SortFrom(_, _, _)
SortFrom(paths, d, maxD) ==
    IF d > maxD THEN <<>>
    ELSE SelectSeq(paths, LAMBDA p : Depth(p) = d) \o SortFrom(paths, d + 1, maxD)

\* paths.sort(by depth): the sort is stable, so paths of equal depth keep
\* their order.
SortByDepth(paths) ==
    IF Len(paths) = 0 THEN <<>>
    ELSE LET ds == {Depth(paths[i]) : i \in 1..Len(paths)}
             maxD == CHOOSE d \in ds : \A e \in ds : e <= d
         IN  SortFrom(paths, 1, maxD)

\* Map<number, Set<string>>: depth -> the paths of that depth.
DepthMap(paths) ==
    LET ds == {Depth(paths[i]) : i \in 1..Len(paths)}
    IN  [d \in ds |-> {paths[i] : i \in {j \in 1..Len(paths) : Depth(paths[j]) = d}}]

\* Mutant: only the paths of depth 1 are kept.
pruneDescendantsPathsTopOnly(paths) ==
    SelectSeq(Dedup(SortByDepth(paths)), LAMBDA path : Depth(path) = 1)

pruneDescendantsPaths(paths) ==
    LET sorted   == SortByDepth(paths)
        depthMap == DepthMap(sorted)
        has(ancestor) ==
            /\ Depth(ancestor) \in DOMAIN depthMap
            /\ ancestor \in depthMap[Depth(ancestor)]
        alreadyIn(path) ==
            LET anc == getAllAncestors(path)
            IN  \E i \in 1..Len(anc) : has(anc[i])
    IN  SelectSeq(Dedup(sorted),
                  LAMBDA path : Depth(path) = 1 \/ ~alreadyIn(path))

\* Mutant: shift() for pop(), the first segment becomes the name.
createPathToNameMapFirst(paths) ==
    [i \in 1..Len(paths) |-> [src |-> paths[i], name |-> Split(paths[i])[1]]]

\* Map<string, string> in insertion order: a sequence of [src, name].
createPathToNameMap(paths) ==
    [i \in 1..Len(paths) |-> [src |-> paths[i], name |-> BaseName(paths[i])]]

RECURSIVE RegexMatchLen(_, _, _, _)
\* new RegExp(`^${src}`) applied at the start of s: the number of characters
\* the match consumes, or -1 when there is no match.  The pattern is the raw
\* source path: "." matches any character, "(" and ")" delimit a group and
\* consume nothing, every other character of the alphabet matches itself.
RegexMatchLen(pat, s, i, j) ==
    IF i > Len(pat) THEN j
    ELSE IF pat[i] \in {"(", ")"} THEN RegexMatchLen(pat, s, i + 1, j)
    ELSE IF j + 1 > Len(s) THEN -1
    ELSE IF pat[i] = EXT_SEP \/ pat[i] = s[j + 1]
         THEN RegexMatchLen(pat, s, i + 1, j + 1)
    ELSE -1

\* child.path.replace(new RegExp(`^${src}`), "")
ReplaceSrcPrefix(childPath, src) ==
    LET n == RegexMatchLen(src, childPath, 1, 0)
    IN  IF n < 0 THEN childPath ELSE SubSeq(childPath, n + 1, Len(childPath))

(***************************************************************************)
(* The vault: a function from the paths that exist to their entries.       *)
(* A file carries a content identifier, a folder carries 0.                *)
(***************************************************************************)

FILE == "file"

FOLDER == "folder"

\* path is the entry root or lies inside the folder root.
IsUnder(path, root) ==
    \/ path = root
    \/ StartsWith(path, root \o <<DIR_SEP>>)

\* TAbstractFile.parent.path; <<>> stands for the vault root.
ParentPath(path) == Join(SubSeq(Split(path), 1, Depth(path) - 1))

\* A provider write at path needs its parent folder.
ParentIsFolder(t, path) ==
    \/ Depth(path) = 1
    \/ /\ ParentPath(path) \in DOMAIN t
       /\ t[ParentPath(path)].kind = FOLDER

\* app.fileManager.trashFile(file): the entry and all its descendants go.
trashFile(t, path) ==
    [p \in {q \in DOMAIN t : ~IsUnder(q, path)} |-> t[p]]

\* The paths a trashFile(path) deletes: the vault fires "delete" for each.
Deleted(t, path) == {q \in DOMAIN t : IsUnder(q, path)}

\* fileManager.renameFile(file, dest): the whole subtree moves in one call.
renameFile(t, src, dest) ==
    LET moved == {q \in DOMAIN t : IsUnder(q, src)}
        rest  == DOMAIN t \ moved
        to(q) == dest \o SubSeq(q, Len(src) + 1, Len(q))
        from(p) == src \o SubSeq(p, Len(dest) + 1, Len(p))
    IN  [p \in rest \cup {to(q) : q \in moved} |->
            IF p \in rest THEN t[p] ELSE t[from(p)]]

\* renameFile rejects a destination that exists, that has no parent folder,
\* or that lies inside the entry being moved.
CanRename(t, src, dest) ==
    /\ dest \notin DOMAIN t
    /\ ParentIsFolder(t, dest)
    /\ ~IsUnder(dest, src)

\* vault.copy(file, newPath) and vault.createFolder(path) reject a path that
\* exists or that has no parent folder.
CanCreate(t, path) ==
    /\ path \notin DOMAIN t
    /\ ParentIsFolder(t, path)

RECURSIVE ParentsFirst(_)
ParentsFirst(S) ==
    IF S = {} THEN <<>>
    ELSE LET p == CHOOSE x \in S : \A y \in S : Len(x) <= Len(y)
         IN  <<p>> \o ParentsFirst(S \ {p})

\* Vault.recurseChildren(folder, cb): the folder itself, then its
\* descendants, every folder before what it contains.
recurseChildren(t, folder) ==
    ParentsFirst({q \in DOMAIN t : IsUnder(q, folder)})

\* The vault after an entry has been written at path.
Put(t, path, entry) ==
    [p \in DOMAIN t \cup {path} |-> IF p = path THEN entry ELSE t[p]]

(***************************************************************************)
(* The operations handed to _conflictSolver.  Each yields                  *)
(*   ok     - FALSE when the operation threw,                              *)
(*   tree   - the vault when it returned or threw,                         *)
(*   writes - the paths it wrote, in order.                                *)
(***************************************************************************)

RECURSIVE copyChildren(_, _, _, _, _, _, _)
\* The for loop over children of _copyFileOrFolder; snap is the vault when
\* the children were collected.
copyChildren(snap, t, writes, children, k, src, dest) ==
    IF k > Len(children) THEN [ok |-> TRUE, tree |-> t, writes |-> writes]
    ELSE LET child  == children[k]
             target == dest \o ReplaceSrcPrefix(child, src)
         IN  IF target \in DOMAIN t
             THEN copyChildren(snap, t, writes, children, k + 1, src, dest)
             ELSE IF ~CanCreate(t, target)
             THEN [ok |-> FALSE, tree |-> t, writes |-> writes]
             ELSE copyChildren(snap, Put(t, target, snap[child]),
                               Append(writes, target), children, k + 1, src, dest)

\* The operation of _copyFileOrFolder.
copyOperation(t, src, dest) ==
    IF src \notin DOMAIN t
    THEN [ok |-> FALSE, tree |-> t, writes |-> <<>>]
    ELSE IF t[src].kind = FILE
    THEN IF CanCreate(t, dest)
         THEN [ok |-> TRUE, tree |-> Put(t, dest, t[src]), writes |-> <<dest>>]
         ELSE [ok |-> FALSE, tree |-> t, writes |-> <<>>]
    ELSE copyChildren(t, t, <<>>, recurseChildren(t, src), 1, src, dest)

\* The operation of _moveFileOrFolder.
moveOperation(t, src, dest) ==
    IF src \in DOMAIN t /\ CanRename(t, src, dest)
    THEN [ok |-> TRUE, tree |-> renameFile(t, src, dest), writes |-> <<dest>>]
    ELSE [ok |-> FALSE, tree |-> t, writes |-> <<>>]

operation(kind, t, src, dest) ==
    IF kind = COPY THEN copyOperation(t, src, dest) ELSE moveOperation(t, src, dest)

\* vault.exists(dest)
Exists(t, dest) == dest \in DOMAIN t

\* _conflictSolver when the destination does not exist.
conflictSolverFree(kind, t, src, dest) ==
    LET r == operation(kind, t, src, dest)
    IN  [resolution |-> NULL, applyToAll |-> TRUE, dest |-> dest,
         ok |-> r.ok, tree |-> r.tree, writes |-> r.writes, deleted |-> {}]

\* Mutant: KEEP runs the operation with the destination it was given; the
\* generated path is only returned.
conflictSolverResolveKeepsDest(kind, t, src, dest, resolve, applyToAll) ==
    IF resolve = OVERWRITE
    THEN IF dest \notin DOMAIN t
         THEN [resolution |-> OVERWRITE, applyToAll |-> applyToAll, dest |-> dest,
               ok |-> FALSE, tree |-> t, writes |-> <<>>, deleted |-> {}]
         ELSE LET r == operation(kind, trashFile(t, dest), src, dest)
              IN  [resolution |-> OVERWRITE, applyToAll |-> applyToAll,
                   dest |-> dest, ok |-> r.ok, tree |-> r.tree,
                   writes |-> r.writes, deleted |-> Deleted(t, dest)]
    ELSE IF resolve = KEEP
    THEN LET newDest == genNonExistingPath(DOMAIN t, dest, TRUE)
             r == operation(kind, t, src, dest)
         IN  [resolution |-> KEEP, applyToAll |-> applyToAll, dest |-> newDest,
              ok |-> r.ok, tree |-> r.tree, writes |-> r.writes, deleted |-> {}]
    ELSE [resolution |-> SKIP, applyToAll |-> applyToAll, dest |-> dest,
          ok |-> TRUE, tree |-> t, writes |-> <<>>, deleted |-> {}]

\* Mutant: no SKIP return; whatever is not KEEP overwrites.
conflictSolverResolveNoSkip(kind, t, src, dest, resolve, applyToAll) ==
    IF resolve = KEEP
    THEN LET newDest == genNonExistingPath(DOMAIN t, dest, TRUE)
             r == operation(kind, t, src, newDest)
         IN  [resolution |-> KEEP, applyToAll |-> applyToAll, dest |-> newDest,
              ok |-> r.ok, tree |-> r.tree, writes |-> r.writes, deleted |-> {}]
    ELSE IF dest \notin DOMAIN t
    THEN [resolution |-> resolve, applyToAll |-> applyToAll, dest |-> dest,
          ok |-> FALSE, tree |-> t, writes |-> <<>>, deleted |-> {}]
    ELSE LET r == operation(kind, trashFile(t, dest), src, dest)
         IN  [resolution |-> resolve, applyToAll |-> applyToAll,
              dest |-> dest, ok |-> r.ok, tree |-> r.tree,
              writes |-> r.writes, deleted |-> Deleted(t, dest)]

\* _conflictSolver from the point where the resolution is known.
conflictSolverResolve(kind, t, src, dest, resolve, applyToAll) ==
    IF resolve = OVERWRITE
    THEN IF dest \notin DOMAIN t
         THEN [resolution |-> OVERWRITE, applyToAll |-> applyToAll, dest |-> dest,
               ok |-> FALSE, tree |-> t, writes |-> <<>>, deleted |-> {}]
         ELSE LET r == operation(kind, trashFile(t, dest), src, dest)
              IN  [resolution |-> OVERWRITE, applyToAll |-> applyToAll,
                   dest |-> dest, ok |-> r.ok, tree |-> r.tree,
                   writes |-> r.writes, deleted |-> Deleted(t, dest)]
    ELSE IF resolve = KEEP
    THEN LET newDest == genNonExistingPath(DOMAIN t, dest, TRUE)
             r == operation(kind, t, src, newDest)
         IN  [resolution |-> KEEP, applyToAll |-> applyToAll, dest |-> newDest,
              ok |-> r.ok, tree |-> r.tree, writes |-> r.writes, deleted |-> {}]
    ELSE [resolution |-> SKIP, applyToAll |-> applyToAll, dest |-> dest,
          ok |-> TRUE, tree |-> t, writes |-> <<>>, deleted |-> {}]

\* Mutant: the "delete" handler leaves the map as it is.
MapDeleteNothing(map, paths) == map

\* Map.delete(path) for every path of a set, on a map kept as a sequence.
MapDelete(map, paths) == SelectSeq(map, LAMBDA e : e.src \notin paths)

\* The position of a Map iterator that had visited n entries, after the
\* entries of paths were deleted from the map.
IterAfterDelete(map, n, paths) ==
    Cardinality({i \in 1..n : i <= Len(map) /\ map[i].src \notin paths})

(***************************************************************************)
(* Bounds: the vaults a run starts from and the inputs the host supplies.  *)
(***************************************************************************)

\* The most entries a selection holds.
MaxItems == 3

\* The most batches started in one run.
MaxBatches == 1

\* The most paths handed to one pruneDescendantsPaths call.
MaxPaths == 3

Path(parts) == Join(parts)

nA == <<"a">>

nB == <<"b">>

nT == <<"t">>

nR == <<"r">>

nN == <<"n">>

nF == <<"f">>

nS == <<"s">>

nD == <<"d">>

nXm == <<"x", ".", "m">>

nYm == <<"y", ".", "m">>

nOm == <<"o", ".", "m">>

nP1 == <<"p", "(", "1", ")">>

File(c) == [kind |-> FILE, content |-> c]

Folder == [kind |-> FOLDER, content |-> 0]

\* A vault given as a set of <<path, entry>> pairs.
TreeOf(entries) ==
    [p \in {e[1] : e \in entries} |-> (CHOOSE e \in entries : e[1] = p)[2]]

\* Files of equal name in two folders, and a destination that holds one.
TreeFiles ==
    TreeOf({ <<Path(<<nA>>), Folder>>, <<Path(<<nA, nXm>>), File(1)>>,
             <<Path(<<nA, nYm>>), File(2)>>,
             <<Path(<<nB>>), Folder>>, <<Path(<<nB, nXm>>), File(3)>>,
             <<Path(<<nT>>), Folder>>, <<Path(<<nT, nXm>>), File(4)>>,
             <<Path(<<nR>>), Folder>> })

\* A folder with a file, an empty subfolder and a subfolder with a file; a
\* destination that holds a folder of the same name, an empty destination,
\* and a file named as the folder.
TreeFolders ==
    TreeOf({ <<Path(<<nN>>), Folder>>, <<Path(<<nN, nXm>>), File(1)>>,
             <<Path(<<nN, nS>>), Folder>>,
             <<Path(<<nN, nD>>), Folder>>, <<Path(<<nN, nD, nYm>>), File(4)>>,
             <<Path(<<nT>>), Folder>>, <<Path(<<nT, nN>>), Folder>>,
             <<Path(<<nT, nN, nOm>>), File(2)>>,
             <<Path(<<nR>>), Folder>>,
             <<Path(<<nF>>), Folder>>, <<Path(<<nF, nN>>), File(3)>> })

\* A folder whose name holds parentheses.
TreeParens ==
    TreeOf({ <<Path(<<nP1>>), Folder>>, <<Path(<<nP1, nYm>>), File(1)>>,
             <<Path(<<nT>>), Folder>>, <<Path(<<nT, nP1>>), Folder>>,
             <<Path(<<nT, nP1, nOm>>), File(2)>>,
             <<Path(<<nR>>), Folder>> })

InitTrees == {TreeFiles, TreeFolders, TreeParens}

\* The selections the host ever makes, in the order the entries were
\* selected.
SelectionChoices ==
    { <<Path(<<nA, nXm>>)>>,
      <<Path(<<nA, nYm>>), Path(<<nA, nXm>>)>>,
      <<Path(<<nA, nXm>>), Path(<<nB, nXm>>)>>,
      <<Path(<<nA, nXm>>), Path(<<nA, nYm>>), Path(<<nB, nXm>>)>>,
      <<Path(<<nN>>)>>,
      <<Path(<<nN, nXm>>), Path(<<nN>>)>>,
      <<Path(<<nF, nN>>)>>,
      <<Path(<<nN, nD>>)>>,
      <<Path(<<nP1>>)>>,
      <<Path(<<nT, nP1>>)>> }

\* The folders the host ever focuses or picks as a destination.
Destinations ==
    { Path(<<nT>>), Path(<<nR>>), Path(<<nA>>), Path(<<nN>>), Path(<<nN, nD>>) }

\* The selections the file explorer may hold in the vault t.
Selections(t) ==
    {s \in SelectionChoices :
        /\ Len(s) <= MaxItems
        /\ \A i \in 1..Len(s) : s[i] \in DOMAIN t}

DestChoices(t) == {d \in Destinations \cap DOMAIN t : t[d].kind = FOLDER}

\* The paths the arguments of pruneDescendantsPaths are drawn from: a
\* folder, entries of depth 2 and 3 below it, a sibling whose name starts
\* with the name of the folder, and an unrelated entry.
PrunePaths ==
    { Path(<<nA>>), Path(<<nA, nXm>>), Path(<<nA, nS>>),
      Path(<<nA, nS, nYm>>), Path(<<nA \o nB>>), Path(<<nD>>) }

PruneInputs == UNION {[1..k -> PrunePaths] : k \in 0..MaxPaths}

\* The most entries deleted from outside the plugin in one run.
MaxDeletes == 1

\* The entries ever deleted from outside: a file that selections hold, a
\* folder that selections hold, a file inside that folder, and an entry of
\* a destination folder.
DeleteChoices ==
    { Path(<<nA, nXm>>), Path(<<nN>>), Path(<<nN, nXm>>), Path(<<nT, nXm>>),
      Path(<<nP1>>) }

\* The most batches that wait, overtaken by a later batch, and the most
\* commands of one run that overtake a batch.
MaxOverlap == 1

\* The selections of a command run while another batch is suspended: one
\* file or one folder, moved or copied into the folder r or the folder t.
OverlapSelections ==
    { <<Path(<<nA, nXm>>)>>, <<Path(<<nN, nD>>)>>, <<Path(<<nP1>>)>> }

OverlapDestinations == { Path(<<nR>>), Path(<<nT>>) }

\* The most duplicate-file commands of one run.
MaxDups == 2

\* The values settings.duplicateSuffix may hold: the default, and another.
DuplicateSuffixes == { <<" ", "-", " ", "C", "o", "p", "y">>, <<"_", "c">> }

\* A string that is no member of FileConflictOption.
INVALID == "MERGE"

\* The values settings.conflictResolutionMethod may hold: it is a string
\* read from the saved data, never validated.
Options == FileConflictOption \cup {INVALID}

(***************************************************************************)
(* State.                                                                  *)
(***************************************************************************)

VARIABLES
    tree,           \* the vault: path -> entry
    option,         \* settings.conflictResolutionMethod
    clipboard,      \* FileManagerPlugin.clipboard: NoMap, or Held(map)
    fileOperation,  \* FileManagerPlugin.fileOperation
    pc,             \* the batch: "idle", "loop", "prompt", "done", "failed"
    caller,         \* who awaits the batch: "paste", "command", "api"
    kind,           \* COPY for copyFiles, MOVE for moveFiles
    destFolder,     \* the path argument
    pathToName,     \* the pathToName argument
    visited,        \* entries of pathToName the for loop has taken
    aliased,        \* pathToName is the Map object this.clipboard refers to
    resolve,        \* the resolve variable of the batch
    resolveArg,     \* history: the resolve argument of the call
    stats,          \* the stats Map: destination -> resolution or NULL
    log,            \* history: one record per item the batch has run
    pasteClip,      \* history: the clipboard when the paste started
    item,           \* the [src, name] the loop holds while the modal is open
    nBatches,       \* history: batches started
    returned,       \* what the caller of the batch obtained: NoMap, or Held(stats)
    gone,           \* history: the paths deleted and not written again
    suspended,      \* the batches another batch has overtaken, innermost first
    dup,            \* history of the duplicate-file commands
    nDeletes,       \* history: entries deleted from outside the plugin
    selection,      \* tree.selectedDoms: the selected paths, in insertion order
    selHist,        \* history of the selection commands
    gen,            \* a genNonExistingPath call and the call that follows it
    modal,          \* the ConflictModal and the promise of openAndWait
    roundTrip,      \* history of a move and the move back
    pruneIn,        \* the argument of a pruneDescendantsPaths call
    pruneOut        \* its result, NoMap before the call

\* A Map<string, string> | null: the empty tuple is null, a one-element
\* tuple holds the map, itself a sequence of [src, name] in insertion order.
NoMap == <<>>

Held(map) == <<map>>

batchVars == <<pc, caller, kind, destFolder, pathToName, visited, aliased,
               resolve, resolveArg, stats, log, pasteClip, item, nBatches,
               returned>>

moreVars == <<selection, selHist, gen, modal>>

auxVars == <<roundTrip, pruneIn, pruneOut, suspended, dup, nDeletes, moreVars>>

vars == <<tree, option, clipboard, fileOperation, gone, batchVars, auxVars>>

\* No ConflictModal has been constructed.
NoModal ==
    [open |-> FALSE, applyToAll |-> FALSE, settled |-> NoMap, calls |-> 0,
     delivered |-> 0, clicked |-> NoMap, n |-> 0]

\* Mutant: a promise that takes the value of every call of resolve.
PromiseResolveLast(settled, value) == Held(value)

\* The resolve function of new Promise(...): the first call settles the
\* promise, later calls change nothing.
PromiseResolve(settled, value) ==
    IF settled = NoMap THEN Held(value) ELSE settled

NoBatch == pc \in {"idle", "done", "failed"}

Init ==
    /\ tree \in InitTrees
    /\ option \in Options
    /\ clipboard = NoMap
    /\ fileOperation = COPY
    /\ pc = "idle"
    /\ caller = NULL
    /\ kind = COPY
    /\ destFolder = <<>>
    /\ pathToName = <<>>
    /\ visited = 0
    /\ aliased = FALSE
    /\ resolve = NULL
    /\ resolveArg = NULL
    /\ stats = <<>>
    /\ log = <<>>
    /\ pasteClip = NoMap
    /\ item = NoMap
    /\ nBatches = 0
    /\ returned = NoMap
    /\ gone = {}
    /\ suspended = <<>>
    /\ dup = <<>>
    /\ nDeletes = 0
    /\ selection = <<>>
    /\ selHist = <<>>
    /\ gen = [phase |-> 0]
    /\ modal = NoModal
    /\ roundTrip = [phase |-> 0]
    /\ pruneIn = <<>>
    /\ pruneOut = NoMap

\* getSelectedPathToNameMap(true) on the selection sel.
getSelectedPathToNameMap(sel) == createPathToNameMap(pruneDescendantsPaths(sel))

(***************************************************************************)
(* Clipboard commands.                                                     *)
(***************************************************************************)

\* copy-files-to-clipboard / cut-files-to-clipboard with the selection sel.
ToClipboard(sel, op) ==
    /\ clipboard' = Held(getSelectedPathToNameMap(sel))
    /\ fileOperation' = op
    /\ aliased' = FALSE
    /\ UNCHANGED <<tree, option, pc, caller, kind, destFolder, pathToName,
                   visited, resolve, resolveArg, stats, log, pasteClip, item,
                   nBatches, returned, gone, auxVars>>

CopyFilesToClipboard == \E sel \in Selections(tree) : ToClipboard(sel, COPY)

CutFilesToClipboard == \E sel \in Selections(tree) : ToClipboard(sel, MOVE)

\* clear-clipboard
ClearClipboard ==
    /\ clipboard # NoMap
    /\ clipboard' = NoMap
    /\ aliased' = FALSE
    /\ UNCHANGED <<tree, option, fileOperation, pc, caller, kind, destFolder,
                   pathToName, visited, resolve, resolveArg, stats, log, pasteClip, item,
                   nBatches, returned, gone, auxVars>>

(***************************************************************************)
(* Starting a batch: copyFiles / moveFiles up to the for loop.             *)
(***************************************************************************)

\* copyFiles(path, map, res) or moveFiles(path, map, res) from the call to
\* the first await.
Begin(who, op, path, map, res, alias) ==
    /\ pc' = "loop"
    /\ caller' = who
    /\ kind' = op
    /\ destFolder' = path
    /\ pathToName' = map
    /\ visited' = 0
    /\ aliased' = alias
    /\ resolve' = res
    /\ resolveArg' = res
    /\ stats' = <<>>
    /\ log' = <<>>
    /\ pasteClip' = IF who = "paste" THEN clipboard ELSE NoMap
    /\ nBatches' = nBatches + 1
    /\ returned' = NoMap
    /\ item' = NoMap
    /\ UNCHANGED <<tree, option, clipboard, fileOperation, gone, pruneIn,
                   pruneOut, dup, nDeletes,
                   moreVars>>

\* The call while no other batch is in progress.
Call(who, op, path, map, res, alias) ==
    /\ NoBatch
    /\ Begin(who, op, path, map, res, alias)

StartBatch(who, op, path, map, res, alias) ==
    /\ nBatches < MaxBatches
    /\ Call(who, op, path, map, res, alias)
    /\ UNCHANGED <<roundTrip, suspended>>

\* paste-files-from-clipboard with the focused entry foc.
PasteFilesFromClipboard ==
    \E foc \in DestChoices(tree) :
        /\ clipboard # NoMap
        /\ StartBatch("paste", fileOperation, foc, clipboard[1], NULL, TRUE)

\* move-files / copy-files: the folder chosen in SuggestPathModal is path.
MoveFiles ==
    \E sel \in Selections(tree), path \in DestChoices(tree) :
        StartBatch("command", MOVE, path, getSelectedPathToNameMap(sel), NULL, FALSE)

CopyFiles ==
    \E sel \in Selections(tree), path \in DestChoices(tree) :
        StartBatch("command", COPY, path, getSelectedPathToNameMap(sel), NULL, FALSE)

\* copyFiles / moveFiles called with a resolution argument.
CallWithResolution ==
    \E op \in FileOperation, sel \in Selections(tree),
       path \in DestChoices(tree), res \in FileConflictResolution :
        StartBatch("api", op, path, getSelectedPathToNameMap(sel), res, FALSE)

(***************************************************************************)
(* The for loop of copyFiles / moveFiles.                                  *)
(***************************************************************************)

\* The entry the loop takes next, and its destination `${path}/${dest}`.
Current == IF pc = "prompt" THEN item[1] ELSE pathToName[visited + 1]

\* The entries the Map iterator has passed once the current item is over:
\* the current entry counts unless a "delete" event took it from the map.
Passed ==
    IF visited < Len(pathToName) /\ pathToName[visited + 1] = Current
    THEN visited + 1 ELSE visited

NewDest == destFolder \o <<DIR_SEP>> \o Current.name

\* Mutant: a rejected operation is swallowed and the loop goes on.
AfterAwaitSwallows(ok) == "loop"

\* await of _moveFileOrFolder / _copyFileOrFolder inside the for loop: a
\* rejection is not caught, it ends the loop and rejects the batch.
AfterAwait(ok) == IF ok THEN "loop" ELSE "failed"

\* The loop body from the return of _conflictSolver (result r) on, with the
\* "delete" events the item raised.  asked: getFileConflictResolutionMethod
\* was called; collided: the destination existed; dismissed: the modal was
\* closed without a choice.
FinishItem(r, collided, asked, dismissed) ==
    /\ tree' = r.tree
    /\ gone' = (gone \cup r.deleted) \ DOMAIN r.tree
    /\ clipboard' = IF clipboard = NoMap THEN NoMap
                    ELSE Held(MapDelete(clipboard[1], r.deleted))
    /\ pathToName' = IF aliased THEN MapDelete(pathToName, r.deleted)
                     ELSE pathToName
    /\ log' = Append(log, [src |-> Current.src, dest |-> NewDest,
                           collided |-> collided, asked |-> asked,
                           dismissed |-> dismissed,
                           resolution |-> r.resolution,
                           applyToAll |-> r.applyToAll,
                           actual |-> r.dest, ok |-> r.ok,
                           writes |-> r.writes])
    /\ pc' = AfterAwait(r.ok)
    /\ IF r.ok
       THEN /\ visited' = IF aliased
                          THEN IterAfterDelete(pathToName, Passed, r.deleted)
                          ELSE Passed
            /\ stats' = [d \in DOMAIN stats \cup {NewDest} |->
                            IF d = NewDest THEN r.resolution ELSE stats[d]]
            /\ resolve' = IF r.applyToAll THEN r.resolution ELSE resolve
       ELSE UNCHANGED <<visited, stats, resolve>>
    /\ UNCHANGED <<option, fileOperation, caller, kind, destFolder, aliased,
                   resolveArg, pasteClip, item, nBatches, returned, auxVars>>

\* An item whose destination does not exist.
ItemFree ==
    /\ pc = "loop"
    /\ visited < Len(pathToName)
    /\ ~Exists(tree, NewDest)
    /\ FinishItem(conflictSolverFree(kind, tree, Current.src, NewDest), FALSE, FALSE, FALSE)

\* A collision while resolve holds a resolution.
ItemResolved ==
    /\ pc = "loop"
    /\ visited < Len(pathToName)
    /\ Exists(tree, NewDest)
    /\ resolve # NULL
    /\ FinishItem(conflictSolverResolve(kind, tree, Current.src, NewDest,
                                        resolve, TRUE), TRUE, FALSE, FALSE)

\* Mutant: a value that is no resolution is replaced by KEEP.
getFileConflictResolutionMethodKeeps(opt) ==
    <<IF opt \in FileConflictResolution THEN opt ELSE KEEP, TRUE>>

\* getFileConflictResolutionMethod when the policy is not PROMPT: the
\* value is cast to FileConflictResolution and returned as it is.
getFileConflictResolutionMethod(opt) == <<opt, TRUE>>

\* A collision with resolve null and a configured policy.
ItemPolicy ==
    /\ pc = "loop"
    /\ visited < Len(pathToName)
    /\ Exists(tree, NewDest)
    /\ resolve = NULL
    /\ option # PROMPT
    /\ LET answer == getFileConflictResolutionMethod(option)
       IN  FinishItem(conflictSolverResolve(kind, tree, Current.src, NewDest,
                                            answer[1], answer[2]),
                      TRUE, TRUE, FALSE)

\* A collision with resolve null and the PROMPT policy: the ConflictModal
\* opens and the batch is suspended.
ItemPrompt ==
    /\ pc = "loop"
    /\ visited < Len(pathToName)
    /\ Exists(tree, NewDest)
    /\ resolve = NULL
    /\ option = PROMPT
    /\ pc' = "prompt"
    /\ item' = Held(pathToName[visited + 1])
    /\ UNCHANGED <<tree, option, clipboard, fileOperation, caller, kind,
                   destFolder, pathToName, visited, aliased, resolve, resolveArg,
                   stats, log, pasteClip, nBatches, returned, gone, auxVars>>

\* A resolution button of the modal is clicked: the modal resolves with
\* [res, all], all being the state of the "Don't ask again" checkbox.
PromptAnswer ==
    \E res \in FileConflictResolution, all \in BOOLEAN :
        /\ pc = "prompt"
        /\ FinishItem(conflictSolverResolve(kind, tree, Current.src, NewDest,
                                            res, all), TRUE, TRUE, FALSE)

\* Mutant: a modal closed without a choice rejects and the batch aborts.
PromptDismissAborts ==
    /\ pc = "prompt"
    /\ pc' = "failed"
    /\ log' = Append(log, [src |-> Current.src, dest |-> NewDest,
                           collided |-> TRUE, asked |-> TRUE,
                           dismissed |-> TRUE, resolution |-> NULL,
                           applyToAll |-> FALSE, actual |-> NewDest,
                           ok |-> FALSE, writes |-> <<>>])
    /\ UNCHANGED <<tree, option, clipboard, fileOperation, gone, caller, kind,
                   destFolder, pathToName, visited, aliased, resolve, resolveArg,
                   stats, pasteClip, item, nBatches, returned, auxVars>>

\* The modal is closed without a choice (Cancel, Escape, a click outside):
\* the Cancel button and onClose resolve with [SKIP, this.applyToAll].
PromptDismiss ==
    \E all \in BOOLEAN :
        /\ pc = "prompt"
        /\ FinishItem(conflictSolverResolve(kind, tree, Current.src, NewDest,
                                            SKIP, all), TRUE, TRUE, TRUE)

\* The loop is over: the batch returns stats and the caller goes on.  The
\* paste command clears the clipboard when fileOperation is MOVE.
\* Mutant: the loop is over and the batch never returns.
BatchReturnHangs ==
    /\ pc = "loop"
    /\ visited >= Len(pathToName)
    /\ UNCHANGED vars

BatchReturn ==
    /\ pc = "loop"
    /\ visited >= Len(pathToName)
    /\ pc' = "done"
    /\ clipboard' = IF caller = "paste" /\ fileOperation = MOVE
                    THEN NoMap ELSE clipboard
    /\ aliased' = IF caller = "paste" /\ fileOperation = MOVE
                  THEN FALSE ELSE aliased
    /\ returned' = Held(stats)
    /\ UNCHANGED <<tree, option, fileOperation, gone, caller, kind, destFolder,
                   pathToName, visited, resolve, resolveArg, stats, log, pasteClip, item,
                   nBatches, auxVars>>

\* The engine under the move-files and copy-files commands and under direct
\* calls.
Next ==
    \/ MoveFiles
    \/ CopyFiles
    \/ CallWithResolution
    \/ ItemFree
    \/ ItemResolved
    \/ ItemPolicy
    \/ ItemPrompt
    \/ PromptAnswer
    \/ PromptDismiss
    \/ BatchReturn

Spec == Init /\ [][Next]_vars

\* The batch waits for a provider call of the current item or for the
\* answer of the conflict modal.
Awaiting ==
    \/ pc = "loop" /\ visited < Len(pathToName)
    \/ pc = "prompt"

\* The step that ends such a wait: a provider call returns, the modal is
\* answered or dismissed.  One of them is enabled whenever Awaiting holds.
AwaitReturns ==
    \/ ItemFree
    \/ ItemResolved
    \/ ItemPolicy
    \/ ItemPrompt
    \/ PromptAnswer
    \/ PromptDismiss

\* Weak fairness of AwaitReturns, with Awaiting written for what ENABLED
\* <<AwaitReturns>>_vars comes to: a batch does not wait forever.
AwaitsAreFair == []<>(~Awaiting) \/ []<><<AwaitReturns>>_vars

\* The engine when every provider call returns, every conflict prompt is
\* answered or dismissed, and a loop that is over returns.
SpecLive ==
    /\ Init
    /\ [][Next]_vars
    /\ AwaitsAreFair
    /\ WF_vars(BatchReturn)

\* The clipboard commands, which the host may run at any time, also while a
\* paste is suspended at a prompt or between two items.
NextClip ==
    \/ CopyFilesToClipboard
    \/ CutFilesToClipboard
    \/ ClearClipboard
    \/ PasteFilesFromClipboard
    \/ ItemFree
    \/ ItemResolved
    \/ ItemPolicy
    \/ ItemPrompt
    \/ PromptAnswer
    \/ PromptDismiss
    \/ BatchReturn

SpecClip == Init /\ [][NextClip]_vars

TypeOK ==
    /\ pc \in {"idle", "loop", "prompt", "done", "failed"}
    /\ pc \in {"loop", "prompt"} => visited \in 0..Len(pathToName)
    /\ \A p \in DOMAIN tree : ParentIsFolder(tree, p)

(***************************************************************************)
(* pruneDescendantsPaths on its own: any list of paths, repetitions        *)
(* included, in any order.                                                 *)
(***************************************************************************)

InitPruneInputs ==
    /\ tree = TreeFiles
    /\ option = SKIP
    /\ clipboard = NoMap
    /\ fileOperation = COPY
    /\ pc = "idle"
    /\ caller = NULL
    /\ kind = COPY
    /\ destFolder = <<>>
    /\ pathToName = <<>>
    /\ visited = 0
    /\ aliased = FALSE
    /\ resolve = NULL
    /\ resolveArg = NULL
    /\ stats = <<>>
    /\ log = <<>>
    /\ pasteClip = NoMap
    /\ item = NoMap
    /\ nBatches = 0
    /\ returned = NoMap
    /\ gone = {}
    /\ suspended = <<>>
    /\ dup = <<>>
    /\ nDeletes = 0
    /\ selection = <<>>
    /\ selHist = <<>>
    /\ gen = [phase |-> 0]
    /\ modal = NoModal
    /\ roundTrip = [phase |-> 0]
    /\ pruneIn \in PruneInputs
    /\ pruneOut = NoMap

\* getSelectedFilesOrFoldersPath(true): the call of pruneDescendantsPaths.
PruneCall ==
    /\ pruneOut = NoMap
    /\ pruneOut' = Held(pruneDescendantsPaths(pruneIn))
    /\ UNCHANGED <<tree, option, clipboard, fileOperation, gone, batchVars,
                   roundTrip, pruneIn, suspended, dup, nDeletes,
                   moreVars>>

NextPrune == PruneCall

SpecPrune == InitPruneInputs /\ [][NextPrune]_vars

(***************************************************************************)
(* A move with the move-files command and the move back: the host selects  *)
(* the moved entries and picks the folder they came from.                  *)
(***************************************************************************)

\* The entries of map all lie in one folder other than the vault root.
CommonParent(map) ==
    /\ Len(map) > 0
    /\ \A i \in 1..Len(map) :
        /\ Depth(map[i].src) > 1
        /\ ParentPath(map[i].src) = ParentPath(map[1].src)

MoveOut ==
    \E sel \in Selections(tree), path \in DestChoices(tree) :
        LET map == getSelectedPathToNameMap(sel)
        IN  /\ roundTrip.phase = 0
            /\ CommonParent(map)
            /\ Call("command", MOVE, path, map, NULL, FALSE)
            /\ roundTrip' = [phase |-> 1, before |-> tree,
                             from |-> ParentPath(map[1].src), to |-> path,
                             moved |-> map, clean |-> FALSE]
            /\ UNCHANGED suspended

MoveBack ==
    LET sel == [i \in 1..Len(roundTrip.moved) |->
                   roundTrip.to \o <<DIR_SEP>> \o roundTrip.moved[i].name]
    IN  /\ roundTrip.phase = 1
        /\ pc = "done"
        /\ Call("command", MOVE, roundTrip.from,
                getSelectedPathToNameMap(sel), NULL, FALSE)
        /\ roundTrip' = [roundTrip EXCEPT
                            !.phase = 2,
                            !.clean = \A i \in 1..Len(log) : ~log[i].collided]
        /\ UNCHANGED suspended

NextRoundTrip ==
    \/ MoveOut
    \/ MoveBack
    \/ ItemFree
    \/ ItemResolved
    \/ ItemPolicy
    \/ ItemPrompt
    \/ PromptAnswer
    \/ PromptDismiss
    \/ BatchReturn

SpecRoundTrip == Init /\ [][NextRoundTrip]_vars

(***************************************************************************)
(* Entries deleted from outside the plugin (the file explorer, another     *)
(* plugin, the file system) while the plugin is idle or a batch is         *)
(* suspended: the vault fires "delete" for each entry that goes, and the   *)
(* handler of registerVaultEvents removes it from this.clipboard.          *)
(***************************************************************************)

ExternalDelete ==
    \E path \in DeleteChoices \cap DOMAIN tree :
        LET deleted == Deleted(tree, path)
        IN  /\ nDeletes < MaxDeletes
            /\ nDeletes' = nDeletes + 1
            /\ tree' = trashFile(tree, path)
            /\ gone' = gone \cup deleted
            /\ clipboard' = IF clipboard = NoMap THEN NoMap
                            ELSE Held(MapDelete(clipboard[1], deleted))
            /\ pathToName' = IF aliased THEN MapDelete(pathToName, deleted)
                             ELSE pathToName
            /\ visited' = IF aliased
                          THEN IterAfterDelete(pathToName, visited, deleted)
                          ELSE visited
            /\ UNCHANGED <<option, fileOperation, pc, caller, kind, destFolder,
                           aliased, resolve, resolveArg, stats, log, pasteClip, item,
                           nBatches, returned, roundTrip, pruneIn, pruneOut,
                           suspended, dup,
                   moreVars>>

\* The engine under the move-files and copy-files commands, with entries
\* deleted from outside.
NextExt ==
    \/ MoveFiles
    \/ CopyFiles
    \/ ExternalDelete
    \/ ItemFree
    \/ ItemResolved
    \/ ItemPolicy
    \/ ItemPrompt
    \/ PromptAnswer
    \/ PromptDismiss
    \/ BatchReturn

SpecExt == Init /\ [][NextExt]_vars

\* The clipboard commands and the paste, with entries deleted from outside.
NextDel ==
    \/ CopyFilesToClipboard
    \/ CutFilesToClipboard
    \/ ClearClipboard
    \/ PasteFilesFromClipboard
    \/ ExternalDelete
    \/ ItemFree
    \/ ItemResolved
    \/ ItemPolicy
    \/ ItemPrompt
    \/ PromptAnswer
    \/ PromptDismiss
    \/ BatchReturn

SpecDel == Init /\ [][NextDel]_vars

(***************************************************************************)
(* Overlapping batches.  _checkAsyncCallback and onChooseItem start the    *)
(* handler of a command and do not await it, and no flag marks a batch as  *)
(* running: while a batch is suspended at the await of a provider call the *)
(* host may run the handler of another command.  Here the later batch runs *)
(* to its end while the earlier one waits for its provider call.           *)
(***************************************************************************)

\* The local state of the batch in progress.
Context ==
    [pc |-> pc, caller |-> caller, kind |-> kind, destFolder |-> destFolder,
     pathToName |-> pathToName, visited |-> visited, aliased |-> aliased,
     resolve |-> resolve, resolveArg |-> resolveArg, stats |-> stats,
     log |-> log, pasteClip |-> pasteClip, item |-> item,
     returned |-> returned]

\* move-files / copy-files chosen while a batch awaits a provider call.
OverlappingCommand ==
    \E op \in FileOperation, sel \in Selections(tree) \cap OverlapSelections,
       path \in DestChoices(tree) \cap OverlapDestinations :
        /\ pc = "loop"
        /\ Len(suspended) < MaxOverlap
        /\ nBatches < MaxBatches + MaxOverlap
        /\ suspended' = <<Context>> \o suspended
        /\ Begin("command", op, path, getSelectedPathToNameMap(sel), NULL, FALSE)
        /\ UNCHANGED roundTrip

\* The later batch is over and the provider call of the earlier one
\* returns: the earlier batch goes on in the vault as it is now.
Resume ==
    /\ pc \in {"done", "failed"}
    /\ suspended # <<>>
    /\ LET c == Head(suspended)
       IN  /\ pc' = c.pc
           /\ caller' = c.caller
           /\ kind' = c.kind
           /\ destFolder' = c.destFolder
           /\ pathToName' = c.pathToName
           /\ visited' = c.visited
           /\ aliased' = c.aliased
           /\ resolve' = c.resolve
           /\ resolveArg' = c.resolveArg
           /\ stats' = c.stats
           /\ log' = c.log
           /\ pasteClip' = c.pasteClip
           /\ item' = c.item
           /\ returned' = c.returned
    /\ suspended' = Tail(suspended)
    /\ UNCHANGED <<tree, option, clipboard, fileOperation, gone, nBatches,
                   roundTrip, pruneIn, pruneOut, dup, nDeletes,
                   moreVars>>

NextOverlap ==
    \/ MoveFiles
    \/ CopyFiles
    \/ OverlappingCommand
    \/ Resume
    \/ ItemFree
    \/ ItemResolved
    \/ ItemPolicy
    \/ ItemPrompt
    \/ PromptAnswer
    \/ PromptDismiss
    \/ BatchReturn

SpecOverlap == Init /\ [][NextOverlap]_vars

(***************************************************************************)
(* The duplicate-file command on the focused or active entry.              *)
(***************************************************************************)

\* duplicateFile(): _copyFileOrFolder(src, dest, KEEP), then the file item of
\* the returned path is read to focus it; shown is FALSE when the copy
\* threw or when the file explorer holds no item for that path.
DuplicateFile ==
    \E active \in DOMAIN tree, duplicateSuffix \in DuplicateSuffixes :
        LET src  == active
            dest == addSuffixBeforeExtension(src, duplicateSuffix)
            r    == IF Exists(tree, dest)
                    THEN conflictSolverResolve(COPY, tree, src, dest, KEEP, TRUE)
                    ELSE conflictSolverFree(COPY, tree, src, dest)
        IN  /\ NoBatch
            /\ Len(dup) < MaxDups
            /\ tree' = r.tree
            /\ gone' = gone \ DOMAIN r.tree
            /\ dup' = Append(dup, [src |-> src, suffix |-> duplicateSuffix,
                                   before |-> tree, path |-> r.dest,
                                   writes |-> r.writes,
                                   shown |-> r.ok /\ r.dest \in DOMAIN r.tree])
            /\ UNCHANGED <<option, clipboard, fileOperation, batchVars,
                           roundTrip, pruneIn, pruneOut, suspended, nDeletes,
                   moreVars>>

NextDup == DuplicateFile

SpecDup == Init /\ [][NextDup]_vars

(***************************************************************************)
(* The selection commands of the file explorer.                            *)
(***************************************************************************)

\* The most selection commands of one run.
MaxSelOps == 3

\* The entries the file explorer may have the focus on: a file in a folder,
\* entries of a nested folder, and a folder at the top of the vault.
FocusChoices ==
    { Path(<<nA, nXm>>), Path(<<nN, nS>>), Path(<<nN, nD, nYm>>),
      Path(<<nP1, nYm>>), Path(<<nT>>) }

\* The keys of fileExplorer.fileItems in the order Object.entries yields.
fileItems(t) == ParentsFirst(DOMAIN t)

\* The members of a sequence.
Range(seq) == {seq[i] : i \in 1..Len(seq)}

\* tree.clearSelectedDoms().
clearSelectedDoms == <<>>

\* tree.selectItem(item): selectedDoms is a Set, an item is held once.
selectItem(sel, path) ==
    IF path \in Range(sel) THEN sel ELSE Append(sel, path)

\* tree.deselectItem(item).
deselectItem(sel, path) == SelectSeq(sel, LAMBDA q : q # path)

RECURSIVE selectEach(_, _)
\* The loop that calls tree.selectItem for each item of a list.
selectEach(sel, items) ==
    IF Len(items) = 0 THEN sel
    ELSE selectEach(selectItem(sel, Head(items)), Tail(items))

\* activeFileOrFolder.parent?.path: the parent of a top entry is the root.
parentPathOf(focus) ==
    IF Depth(focus) = 1 THEN <<DIR_SEP>> ELSE ParentPath(focus)

\* Mutant: only the entries next to the focus, not what they contain.
selectAllSiblingsOnly(t, sel, focus, clearSelection) ==
    selectEach(IF clearSelection THEN clearSelectedDoms ELSE sel,
               SelectSeq(fileItems(t),
                   LAMBDA path : /\ Depth(path) = Depth(focus)
                                 /\ ParentPath(path) = ParentPath(focus)))

selectAll(t, sel, focus, clearSelection) ==
    LET parentPath == IF parentPathOf(focus) = <<DIR_SEP>> THEN <<>>
                      ELSE parentPathOf(focus) \o <<DIR_SEP>>
    IN  selectEach(IF clearSelection THEN clearSelectedDoms ELSE sel,
                   SelectSeq(fileItems(t),
                       LAMBDA path : StartsWith(path, parentPath)))

\* Mutant: the focused entry is selected whether it was selected or not.
toggleSelectAlwaysSelects(sel, focus, clearSelection) ==
    selectItem(IF clearSelection THEN clearSelectedDoms ELSE sel, focus)

toggleSelect(sel, focus, clearSelection) ==
    LET cleared  == IF clearSelection THEN clearSelectedDoms ELSE sel
        selected == focus \in Range(cleared)
    IN  IF selected THEN deselectItem(cleared, focus)
        ELSE selectItem(cleared, focus)

\* Mutant: the selection is not cleared before the others are selected.
invertSelectionKeeps(t, sel) ==
    selectEach(sel, SelectSeq(fileItems(t), LAMBDA p : p \notin Range(sel)))

invertSelection(t, sel) ==
    LET toSelect == SelectSeq(fileItems(t), LAMBDA p : p \notin Range(sel))
    IN  selectEach(clearSelectedDoms, toSelect)

\* A selection command runs: the selection changes and nothing else does.
SelectionCommand(op, focus, clearSelection, sel) ==
    /\ NoBatch
    /\ Len(selHist) < MaxSelOps
    /\ selection' = sel
    /\ selHist' = Append(selHist, [op |-> op, focus |-> focus,
                                   clear |-> clearSelection,
                                   before |-> selection])
    /\ UNCHANGED <<tree, option, clipboard, fileOperation, gone, batchVars,
                   roundTrip, pruneIn, pruneOut, suspended, dup, nDeletes,
                   gen, modal>>

\* The commands "select all" and "select all (keep selection)".
SelectAll ==
    \E focus \in FocusChoices \cap DOMAIN tree, clearSelection \in BOOLEAN :
        SelectionCommand("selectAll", focus, clearSelection,
                         selectAll(tree, selection, focus, clearSelection))

\* The commands "toggle selection" and "select only the focused entry".
ToggleSelect ==
    \E focus \in FocusChoices \cap DOMAIN tree, clearSelection \in BOOLEAN :
        SelectionCommand("toggleSelect", focus, clearSelection,
                         toggleSelect(selection, focus, clearSelection))

InvertSelection ==
    SelectionCommand("invertSelection", NULL, FALSE,
                     invertSelection(tree, selection))

DeselectAll ==
    SelectionCommand("deselectAll", NULL, FALSE, clearSelectedDoms)

NextSel ==
    \/ SelectAll
    \/ ToggleSelect
    \/ InvertSelection
    \/ DeselectAll

SpecSel == Init /\ [][NextSel]_vars

(***************************************************************************)
(* genNonExistingPath on its own: a call, the returned path marked         *)
(* existing, and the same call again.                                      *)
(***************************************************************************)

\* The highest number a path that exists beforehand is numbered with.
MaxGen == 2

\* The paths genNonExistingPath is called with: a file with an extension
\* and an entry without one.
GenPaths == { Path(<<nA, nXm>>), Path(<<nA, nD>>) }

\* The path, and the path numbered before and after its extension.
GenCandidates(path) ==
    {path} \cup { addSuffixBeforeExtension(path, <<" ">> \o NumToStr(n)) :
                      n \in 1..MaxGen }
           \cup { path \o <<" ">> \o NumToStr(n) : n \in 1..MaxGen }

\* The sets of paths the file explorer may hold items for.
GenFileItems == SUBSET (UNION {GenCandidates(p) : p \in GenPaths})

InitGenInputs ==
    /\ tree = TreeFiles
    /\ option = SKIP
    /\ clipboard = NoMap
    /\ fileOperation = COPY
    /\ pc = "idle"
    /\ caller = NULL
    /\ kind = COPY
    /\ destFolder = <<>>
    /\ pathToName = <<>>
    /\ visited = 0
    /\ aliased = FALSE
    /\ resolve = NULL
    /\ resolveArg = NULL
    /\ stats = <<>>
    /\ log = <<>>
    /\ pasteClip = NoMap
    /\ item = NoMap
    /\ nBatches = 0
    /\ returned = NoMap
    /\ gone = {}
    /\ suspended = <<>>
    /\ dup = <<>>
    /\ nDeletes = 0
    /\ selection = <<>>
    /\ selHist = <<>>
    /\ modal = NoModal
    /\ roundTrip = [phase |-> 0]
    /\ pruneIn = <<>>
    /\ pruneOut = NoMap
    /\ \E items \in GenFileItems, path \in GenPaths, dealWithExt \in BOOLEAN :
           gen = [phase |-> 1, fileItems |-> items, path |-> path,
                  dealWithExt |-> dealWithExt]

\* genNonExistingPath(fileExplorer, path, dealWithExt).
GenCall ==
    /\ gen.phase = 1
    /\ gen' = [phase |-> 2, fileItems |-> gen.fileItems, path |-> gen.path,
               dealWithExt |-> gen.dealWithExt,
               out |-> genNonExistingPath(gen.fileItems, gen.path,
                                          gen.dealWithExt)]
    /\ UNCHANGED <<tree, option, clipboard, fileOperation, gone, batchVars,
                   roundTrip, pruneIn, pruneOut, suspended, dup, nDeletes,
                   selection, selHist, modal>>

\* The returned path gets an item, and the same call is made again.
GenCallAgain ==
    /\ gen.phase = 2
    /\ gen' = [phase |-> 3, fileItems |-> gen.fileItems, path |-> gen.path,
               dealWithExt |-> gen.dealWithExt, out |-> gen.out,
               again |-> genNonExistingPath(gen.fileItems \cup {gen.out},
                                            gen.path, gen.dealWithExt)]
    /\ UNCHANGED <<tree, option, clipboard, fileOperation, gone, batchVars,
                   roundTrip, pruneIn, pruneOut, suspended, dup, nDeletes,
                   selection, selHist, modal>>

NextGen ==
    \/ GenCall
    \/ GenCallAgain

SpecGen == InitGenInputs /\ [][NextGen]_vars

(***************************************************************************)
(* The ConflictModal of conflict.ts and the promise of openAndWait.        *)
(*   open       - the modal is shown;                                      *)
(*   applyToAll - the field the "Don't ask again" checkbox sets;           *)
(*   settled    - the value of the promise, once it has one;               *)
(*   calls      - history: the calls of this.resolvePromise;               *)
(*   delivered  - history: the times the promise took a value;             *)
(*   clicked    - history: the resolution button clicked, with the flag    *)
(*                at that moment;                                          *)
(*   n          - history: the modals opened so far.                       *)
(***************************************************************************)

\* The most conflict modals of one run.
MaxPrompts == 2

\* this.resolvePromise(value): the promise and the histories after the call.
resolvePromise(m, value) ==
    [m EXCEPT !.settled = PromiseResolve(m.settled, value),
              !.calls = @ + 1,
              !.delivered = IF PromiseResolve(m.settled, value) # m.settled
                            THEN @ + 1 ELSE @]

\* this.close(), which runs onClose: resolvePromise is set, so it is called
\* with [SKIP, this.applyToAll].
onClose(m) ==
    [resolvePromise(m, <<SKIP, m.applyToAll>>) EXCEPT !.open = FALSE]

\* The modal changes and nothing else does.
ModalStep(m) ==
    /\ modal' = m
    /\ UNCHANGED <<tree, option, clipboard, fileOperation, gone, batchVars,
                   roundTrip, pruneIn, pruneOut, suspended, dup, nDeletes,
                   selection, selHist, gen>>

\* new ConflictModal(app, file).openAndWait()
openAndWait ==
    /\ ~modal.open
    /\ modal.n < MaxPrompts
    /\ ModalStep([open |-> TRUE, applyToAll |-> FALSE, settled |-> NoMap,
                  calls |-> 0, delivered |-> 0, clicked |-> NoMap,
                  n |-> modal.n + 1])

\* The "change" listener of the checkbox.
CheckboxChange ==
    /\ modal.open
    /\ ModalStep([modal EXCEPT !.applyToAll = ~@])

\* The "click" listener of a resolution button.
ButtonClick ==
    \E resolution \in FileConflictResolution :
        /\ modal.open
        /\ ModalStep(onClose(
               [resolvePromise(modal, <<resolution, modal.applyToAll>>)
                    EXCEPT !.clicked = Held(<<resolution, modal.applyToAll>>)]))

\* The "click" listener of the Cancel button.
CancelClick ==
    /\ modal.open
    /\ ModalStep(onClose(resolvePromise(modal, <<SKIP, modal.applyToAll>>)))

\* Escape or a click outside: the host closes the modal.
ModalClosed ==
    /\ modal.open
    /\ ModalStep(onClose(modal))

NextModal ==
    \/ openAndWait
    \/ CheckboxChange
    \/ ButtonClick
    \/ CancelClick
    \/ ModalClosed

SpecModal == Init /\ [][NextModal]_vars

(***************************************************************************)
(* Properties.                                                             *)
(***************************************************************************)

\* The record of the item the batch ran last.
LastItem == log[Len(log)]

\* A step in which the batch ran an item.
ItemStep == Len(log') = Len(log) + 1

\* The entries below root, keyed by their path relative to root.
RelSubtree(t, root) ==
    LET rel(q) == SubSeq(q, Len(root) + 1, Len(q))
    IN  [r \in {rel(q) : q \in {x \in DOMAIN t : IsUnder(x, root)}} |-> t[root \o r]]

\* C1: in one batch, after a collision resolved with applyToAll = true,
\* every later collision is resolved with the same resolution and without
\* calling getFileConflictResolutionMethod, whatever lies between them.
C1_ApplyToAllIsKept ==
    \A i, j \in 1..Len(log) :
        (i < j /\ log[i].collided /\ log[i].applyToAll /\ log[j].collided)
            => (log[j].resolution = log[i].resolution /\ ~log[j].asked)

\* C2: in a batch called with a resolution argument, every collision is
\* resolved with that resolution and getFileConflictResolutionMethod is
\* never called.
C2_ResolutionArgumentRules ==
    resolveArg # NULL =>
        \A i \in 1..Len(log) :
            log[i].collided =>
                (log[i].resolution = resolveArg /\ ~log[i].asked)

\* ancestor is a strict path-prefix of path.
StrictAncestor(ancestor, path) == ancestor # path /\ IsUnder(path, ancestor)

\* C3: the result of pruneDescendantsPaths holds no path that is a strict
\* path-prefix of another path of the result.
C3_PrunedHasNoAncestorPair ==
    pruneOut # NoMap =>
        \A i, j \in 1..Len(pruneOut[1]) :
            ~StrictAncestor(pruneOut[1][i], pruneOut[1][j])

\* C3 witness: ["a/x.m", "a"] has been pruned to ["a"].
C3_Witness ==
    /\ pruneIn = <<Path(<<nA, nXm>>), Path(<<nA>>)>>
    /\ pruneOut = Held(<<Path(<<nA>>)>>)

\* The record of the item a step runs.
NewItem == log'[Len(log')]

\* Every entry of the vault before the step is still there, unchanged.
EveryEntryKept == \A p \in DOMAIN tree : p \in DOMAIN tree' /\ tree'[p] = tree[p]

\* The same, but for the source subtree of a move.
EveryOtherEntryKept ==
    \A p \in DOMAIN tree :
        \/ kind = MOVE /\ IsUnder(p, NewItem.src)
        \/ p \in DOMAIN tree' /\ tree'[p] = tree[p]

\* Whatever a Keep item writes, it writes where nothing existed.
KeepWritesFreshPaths ==
    /\ NewItem.actual \notin DOMAIN tree
    /\ \A k \in 1..Len(NewItem.writes) : NewItem.writes[k] \notin DOMAIN tree

\* C4 as stated: an item resolved with Keep is performed at a path that did
\* not exist, and every entry that existed before the item is unchanged.
C4_KeepLeavesEveryEntry ==
    [][(ItemStep /\ NewItem.resolution = KEEP)
          => (KeepWritesFreshPaths /\ EveryEntryKept)]_vars

\* C4 amended: an item resolved with Keep is performed at a path that did
\* not exist, and every entry that existed before the item is unchanged,
\* except, for a move, the entries of the source subtree.
C4_KeepLeavesOtherEntries ==
    [][(ItemStep /\ NewItem.resolution = KEEP)
          => (KeepWritesFreshPaths /\ EveryOtherEntryKept)]_vars

\* C4 witness: a Keep item has run and both the original destination and
\* the disambiguated path exist.
C4_Witness ==
    /\ Len(log) > 0
    /\ LastItem.resolution = KEEP
    /\ LastItem.ok
    /\ LastItem.actual # LastItem.dest
    /\ LastItem.actual \in DOMAIN tree
    /\ LastItem.dest \in DOMAIN tree

\* C5: an item resolved with Skip changes no entry of the vault, writes
\* nothing, and is recorded as SKIP in the outcome map.
C5_SkipChangesNothing ==
    [][(ItemStep /\ NewItem.resolution = SKIP)
          => /\ tree' = tree
             /\ NewItem.writes = <<>>
             /\ NewItem.dest \in DOMAIN stats'
             /\ stats'[NewItem.dest] = SKIP]_vars

\* C5 witness: a collision has been resolved with Skip.
C5_Witness ==
    /\ Len(log) > 0
    /\ LastItem.collided
    /\ LastItem.resolution = SKIP
    /\ LastItem.dest \in DOMAIN stats
    /\ LastItem.src \in DOMAIN tree

\* C6: after an item resolved with Overwrite completes, the destination
\* holds exactly the source subtree (the prior destination went first).
C6_OverwriteReplaces ==
    [][(ItemStep /\ NewItem.resolution = OVERWRITE /\ NewItem.ok)
          => RelSubtree(tree', NewItem.dest)
                 = RelSubtree(trashFile(tree, NewItem.dest), NewItem.src)]_vars

\* C7: after the copy of a folder to a destination that did not exist, the
\* destination subtree equals the source subtree as it was before the copy.
C7_FolderCopyEqualsSource ==
    [][(/\ ItemStep
        /\ kind = COPY
        /\ ~NewItem.collided
        /\ NewItem.ok
        /\ tree[NewItem.src].kind = FOLDER)
          => RelSubtree(tree', NewItem.dest) = RelSubtree(tree, NewItem.src)]_vars

\* C9: when a batch completes, the outcome map holds for every entry its
\* original destination, mapped to the resolution applied to that entry
\* (NULL when it met no collision).
C9_OutcomePerEntry ==
    pc = "done" =>
        \A i \in 1..Len(log) :
            /\ log[i].dest \in DOMAIN stats
            /\ stats[log[i].dest] = log[i].resolution

\* C8: when an entry has been moved from folder A to folder B and back from
\* B to A, and neither move met a collision, the vault equals the vault
\* before the first move.
C8_MoveBackRestores ==
    (/\ roundTrip.phase = 2
     /\ pc = "done"
     /\ roundTrip.clean
     /\ \A i \in 1..Len(log) : ~log[i].collided)
        => tree = roundTrip.before

\* C8 witness: a folder that holds a file has made the round trip.
C8_Witness ==
    /\ roundTrip.phase = 2
    /\ pc = "done"
    /\ roundTrip.clean
    /\ Len(log) = 1
    /\ ~log[1].collided
    /\ log[1].dest = Path(<<nN, nD>>)
    /\ log[1].src = Path(<<nR, nD>>)
    /\ Path(<<nN, nD, nYm>>) \in DOMAIN tree

\* C10: when a paste of kind Move completes the clipboard is null; when a
\* paste of kind Copy completes the clipboard holds the entries and the
\* kind it held when the paste started.
C10_ClipboardAfterPaste ==
    [][(pc = "loop" /\ pc' = "done" /\ caller = "paste")
          => /\ kind = MOVE => clipboard' = NoMap
             /\ kind = COPY => (clipboard' = pasteClip /\ fileOperation' = COPY)]_vars

\* C11: when the conflict modal is closed without a choice, the collision
\* is resolved as Skip: the vault is unchanged, Skip is recorded for the
\* destination, and the batch goes on with the next entry of the map.
C11_DismissedPromptSkips ==
    [][(ItemStep /\ NewItem.dismissed)
          => /\ NewItem.resolution = SKIP
             /\ tree' = tree
             /\ pc' = "loop"
             /\ visited' = visited + 1
             /\ stats'[NewItem.dest] = SKIP]_vars

\* C11 witness: the prompt of the first entry was dismissed and the batch
\* has gone on to run the second entry.
C11_Witness ==
    /\ Len(log) = 2
    /\ log[1].dismissed
    /\ log[1].resolution = SKIP
    /\ log[2].ok
    /\ log[2].src # log[1].src

\* The record of the duplicate-file command that ran last.
LastDup == dup[Len(dup)]

\* The path C12 names for the duplicate of src in the vault t: the suffixed
\* path when it is free, else the suffixed path with the first free number.
DupExpected(t, src, suffix, path) ==
    LET suffixed == addSuffixBeforeExtension(src, suffix)
        numbered(i) == addSuffixBeforeExtension(suffixed, <<" ">> \o NumToStr(i))
    IN  IF suffixed \notin DOMAIN t THEN path = suffixed
        ELSE \E i \in 1..(MaxDups + 1) :
                /\ path = numbered(i)
                /\ numbered(i) \notin DOMAIN t
                /\ \A j \in 1..(i - 1) : numbered(j) \in DOMAIN t

\* C12: the duplicate command creates the copy of the entry at the suffixed
\* path when that path is free, else at the suffixed path with the first
\* free number; the copy equals the original, and every entry that existed
\* before, the original included, is unchanged.
C12_DuplicateAtSuffixedPath ==
    \A k \in 1..Len(dup) :
        LET d == dup[k]
            after == IF k = Len(dup) THEN tree ELSE dup[k + 1].before
        IN  /\ DupExpected(d.before, d.src, d.suffix, d.path)
            /\ d.path \in DOMAIN after
            /\ RelSubtree(after, d.path) = RelSubtree(d.before, d.src)
            /\ \A p \in DOMAIN d.before : p \in DOMAIN after /\ after[p] = d.before[p]

\* C13: when a move batch of two files of the same name from different
\* folders meets its first collision at the second file (the first file was
\* moved to the free destination path) and that collision is resolved with
\* Keep and applyToAll = true, the second file ends at the destination path
\* numbered 1, the first file stays at the destination path, and
\* getFileConflictResolutionMethod is called for that collision only.
C13_SecondFileIsNumberedOne ==
    (/\ pc = "done"
     /\ kind = MOVE
     /\ Len(log) = 2
     /\ log[1].dest = log[2].dest
     /\ log[1].src # log[2].src
     /\ ~log[1].collided
     /\ log[2].resolution = KEEP
     /\ log[2].applyToAll)
        => /\ log[2].collided
           /\ log[2].actual = addSuffixBeforeExtension(log[2].dest, <<" ", "1">>)
           /\ log[2].actual \in DOMAIN tree
           /\ log[1].dest \in DOMAIN tree
           /\ ~log[1].asked
           /\ log[1].src \notin DOMAIN tree
           /\ log[2].src \notin DOMAIN tree

\* C13 witness: a/x.m and b/x.m have been moved into the empty folder r, the
\* prompt at the second was answered Keep with "Don't ask again", and the
\* vault holds r/x.m with the content of a/x.m and r/x 1.m with that of b/x.m.
C13_Witness ==
    /\ pc = "done"
    /\ kind = MOVE
    /\ option = PROMPT
    /\ Len(log) = 2
    /\ log[1].src = Path(<<nA, nXm>>)
    /\ log[2].src = Path(<<nB, nXm>>)
    /\ log[2].resolution = KEEP
    /\ log[2].applyToAll
    /\ Path(<<nR, nXm>>) \in DOMAIN tree
    /\ tree[Path(<<nR, nXm>>)] = File(1)
    /\ Path(<<nR, <<"x", " ", "1", ".", "m">>>>) \in DOMAIN tree
    /\ tree[Path(<<nR, <<"x", " ", "1", ".", "m">>>>)] = File(3)

\* C14: when the source of an entry no longer exists as its item is
\* reached, only that item is aborted: the batch goes on with the next
\* entry.
C14_MissingSourceAbortsItemOnly ==
    [][(ItemStep /\ NewItem.src \notin DOMAIN tree)
          => (pc' = "loop" /\ visited' = visited + 1)]_vars

\* C15: when the operation of an item throws, the batch is rejected (the
\* caller obtains no value), every entry the vault held before that item,
\* the effects of the earlier items included, is still there unchanged
\* apart from what the failing item itself trashed at its destination, and
\* no later entry of the map is ever run.
C15_FailureEndsBatchWithoutRollback ==
    [][/\ (ItemStep /\ ~NewItem.ok)
            => /\ pc' = "failed"
               /\ returned' = NoMap
               /\ \A p \in DOMAIN tree :
                    \/ IsUnder(p, NewItem.dest)
                    \/ p \in DOMAIN tree' /\ tree'[p] = tree[p]
       /\ pc = "failed"
            => /\ ~ItemStep
               /\ pc' = "failed" \/ nBatches' = nBatches + 1]_vars

\* C15 witness: the first item of a batch of three was completed and what
\* it wrote is in the vault, the second failed, the third was never run.
C15_Witness ==
    /\ pc = "failed"
    /\ Len(pathToName) = 3
    /\ Len(log) = 2
    /\ log[1].ok
    /\ log[1].writes # <<>>
    /\ log[1].actual \in DOMAIN tree
    /\ ~log[2].ok
    /\ visited = 1
    /\ returned = NoMap

\* C16: when a batch is aborted by a failure, the caller still obtains the
\* outcome map of the items that were completed before the failure.
C16_AbortedBatchReturnsOutcome ==
    pc = "failed" =>
        /\ returned # NoMap
        /\ \A i \in 1..Len(log) :
              log[i].ok => /\ log[i].dest \in DOMAIN returned[1]
                           /\ returned[1][log[i].dest] = stats[log[i].dest]

\* C17: when settings.conflictResolutionMethod is none of Skip, Overwrite,
\* Keep and Prompt, every collision of a batch called without a resolution
\* argument is resolved as Skip: Skip is recorded for the destination and
\* the vault is unchanged.
C17_InvalidPolicyFallsBackToSkip ==
    [][(/\ ItemStep
        /\ option \notin FileConflictOption
        /\ resolveArg = NULL
        /\ NewItem.collided)
          => /\ NewItem.resolution = SKIP
             /\ NewItem.ok
             /\ NewItem.writes = <<>>
             /\ tree' = tree
             /\ stats'[NewItem.dest] = SKIP]_vars

\* C17 witness: under an invalid policy value the resolver was asked about
\* a collision, the item was reported as Skip, and source and destination
\* are both still there.
C17_Witness ==
    /\ option = INVALID
    /\ Len(log) > 0
    /\ LastItem.collided
    /\ LastItem.asked
    /\ LastItem.resolution = SKIP
    /\ LastItem.src \in DOMAIN tree
    /\ LastItem.dest \in DOMAIN tree
    /\ stats[LastItem.dest] = SKIP

\* A step that starts a paste.
PasteStart == pc \notin {"loop", "prompt"} /\ pc' = "loop" /\ caller' = "paste"

\* C18: no key of the clipboard names an entry that has been deleted from
\* the vault; the map a paste starts with holds no deleted entry, and while
\* the clipboard is the map the paste iterates, no item the loop takes from
\* it has a deleted source.
C18_ClipboardHoldsNoDeletedEntry ==
    /\ [](clipboard # NoMap =>
             \A i \in 1..Len(clipboard[1]) : clipboard[1][i].src \notin gone)
    /\ [][/\ PasteStart =>
               \A i \in 1..Len(pathToName') : pathToName'[i].src \notin gone'
          /\ (ItemStep /\ caller = "paste" /\ aliased /\ pc = "loop") =>
               NewItem.src \notin gone]_vars

\* C18 witness: the clipboard held a/y.m and a/x.m, a/x.m was deleted from
\* outside, and a paste has run the one entry that was left.
C18_Witness ==
    /\ caller = "paste"
    /\ pc = "done"
    /\ Path(<<nA, nXm>>) \in gone
    /\ pasteClip # NoMap
    /\ Len(log) = 1
    /\ log[1].src = Path(<<nA, nYm>>)
    /\ log[1].ok

\* The batches in progress: the one that runs and those that wait.
InProgress == Len(suspended) + (IF pc \in {"loop", "prompt"} THEN 1 ELSE 0)

\* C19: at most one batch is in progress at any time.
C19_AtMostOneBatchInProgress == InProgress <= 1

\* A step in which the collision of a folder copy is resolved with Keep.
KeepFolderCopy ==
    /\ ItemStep
    /\ kind = COPY
    /\ NewItem.resolution = KEEP
    /\ NewItem.ok
    /\ tree[NewItem.src].kind = FOLDER

SelAfter(i) ==
    Range(IF i = Len(selHist) THEN selection ELSE selHist[i + 1].before)

\* The selection a selection command found, as a set of paths.
SelBefore(i) == Range(selHist[i].before)

\* C21: after invertSelection an entry of the tree is selected if and only
\* if it was not selected before the command.
C21_InvertIsComplement ==
    \A i \in 1..Len(selHist) :
        selHist[i].op = "invertSelection" =>
            /\ SelAfter(i) \subseteq DOMAIN tree
            /\ \A p \in DOMAIN tree : p \in SelAfter(i) <=> p \notin SelBefore(i)

\* An inversion of a selection that held some entries and not all of them.
C21_Witness ==
    \E i \in 1..Len(selHist) :
        /\ selHist[i].op = "invertSelection"
        /\ SelBefore(i) # {}
        /\ SelBefore(i) # DOMAIN tree
        /\ SelAfter(i) = DOMAIN tree \ SelBefore(i)

\* The selection command i toggled the focused entry without clearing.
IsToggle(i) ==
    /\ selHist[i].op = "toggleSelect"
    /\ ~selHist[i].clear

\* C22: toggleSelect with clearSelection false flips the membership of the
\* focused entry and of no other entry, so two consecutive toggles on the
\* same focused entry restore the selection.
C22_ToggleFlipsFocusOnly ==
    /\ \A i \in 1..Len(selHist) :
           IsToggle(i) =>
               /\ selHist[i].focus \in SelAfter(i)
                      <=> selHist[i].focus \notin SelBefore(i)
               /\ SelAfter(i) \ {selHist[i].focus}
                      = SelBefore(i) \ {selHist[i].focus}
    /\ \A i \in 1..(Len(selHist) - 1) :
           /\ IsToggle(i)
           /\ IsToggle(i + 1)
           /\ selHist[i].focus = selHist[i + 1].focus
           => SelAfter(i + 1) = SelBefore(i)

\* Two consecutive toggles on one entry of a selection that held others.
C22_Witness ==
    \E i \in 1..(Len(selHist) - 1) :
        /\ IsToggle(i)
        /\ IsToggle(i + 1)
        /\ selHist[i].focus = selHist[i + 1].focus
        /\ SelBefore(i) \ {selHist[i].focus} # {}
        /\ SelAfter(i) # SelBefore(i)
        /\ SelAfter(i + 1) = SelBefore(i)

\* The entries inside the parent of the focus: at any depth below it.
DescendantsOfParent(t, focus) ==
    IF Depth(focus) = 1 THEN DOMAIN t
    ELSE {p \in DOMAIN t : IsUnder(p, ParentPath(focus))} \ {ParentPath(focus)}

\* C23: selectAll selects exactly the entries inside the parent of the
\* focused entry; with clearSelection true the selection is that set, with
\* clearSelection false it is that set together with the prior selection.
C23_SelectAllSelectsDescendantsOfParent ==
    \A i \in 1..Len(selHist) :
        selHist[i].op = "selectAll" =>
            SelAfter(i) =
                DescendantsOfParent(tree, selHist[i].focus)
                    \cup (IF selHist[i].clear THEN {} ELSE SelBefore(i))

\* A selectAll that keeps a prior selection outside the parent of the focus,
\* and one that clears such a selection, each in a folder that nests.
C23_Witness ==
    \E i \in 1..Len(selHist) :
        /\ selHist[i].op = "selectAll"
        /\ SelBefore(i) \ DescendantsOfParent(tree, selHist[i].focus) # {}
        /\ \E p \in SelAfter(i) : Depth(p) > Depth(selHist[i].focus)
        /\ DescendantsOfParent(tree, selHist[i].focus) \subseteq SelAfter(i)
        /\ selHist[i].clear
               <=> SelAfter(i) = DescendantsOfParent(tree, selHist[i].focus)

\* path with " n" put in: before the last dot of its last segment when
\* dealWithExt holds and there is such a dot, at its end otherwise; n = 0
\* stands for the path itself.
Numbered(path, dealWithExt, n) ==
    LET dots == {i \in 1..Len(path) :
                    /\ path[i] = EXT_SEP
                    /\ \A j \in i..Len(path) : path[j] # DIR_SEP}
        dot  == CHOOSE i \in dots : \A j \in dots : j <= i
        num  == <<" ">> \o NumToStr(n)
    IN  IF n = 0 THEN path
        ELSE IF dealWithExt /\ dots # {}
             THEN SubSeq(path, 1, dot - 1) \o num \o SubSeq(path, dot, Len(path))
             ELSE path \o num

\* The numbers genNonExistingPath may reach in this model.
GenNumbers == 0..(MaxGen + 2)

\* The number of the first call's result.
GenFirst ==
    CHOOSE n \in GenNumbers : gen.out = Numbered(gen.path, gen.dealWithExt, n)

\* The first call returns the path itself if it is free, else the path
\* numbered with the smallest n >= 1 that is free; the result is free.
GenFirstCallSmallestFree ==
    gen.phase >= 2 =>
        /\ gen.out \notin gen.fileItems
        /\ \E n \in GenNumbers :
               /\ gen.out = Numbered(gen.path, gen.dealWithExt, n)
               /\ \A k \in 0..(n - 1) :
                      Numbered(gen.path, gen.dealWithExt, k) \in gen.fileItems

\* C24 as stated: the first call returns the smallest free candidate, and
\* the call made after its result was marked existing returns the
\* candidate of the next integer.
C24_SecondCallNextInteger ==
    /\ GenFirstCallSmallestFree
    /\ gen.phase = 3 =>
           gen.again = Numbered(gen.path, gen.dealWithExt, GenFirst + 1)

\* C24 amended: the first call returns the smallest free candidate, and the
\* call made after its result was marked existing returns another path that
\* does not exist: the candidate of the smallest greater integer that is
\* free.
C24_SecondCallNextFreeInteger ==
    /\ GenFirstCallSmallestFree
    /\ gen.phase = 3 =>
           /\ gen.again # gen.out
           /\ gen.again \notin gen.fileItems \cup {gen.out}
           /\ \E m \in GenNumbers :
                  /\ m > GenFirst
                  /\ gen.again = Numbered(gen.path, gen.dealWithExt, m)
                  /\ \A k \in (GenFirst + 1)..(m - 1) :
                         Numbered(gen.path, gen.dealWithExt, k) \in gen.fileItems

\* The path and its first candidate exist, the second call passes over a
\* candidate that exists, and the suffix went before the extension.
C24_Witness ==
    /\ gen.phase = 3
    /\ gen.dealWithExt
    /\ gen.path \in gen.fileItems
    /\ GenFirst >= 1
    /\ gen.out # gen.path \o <<" ">> \o NumToStr(GenFirst)
    /\ Numbered(gen.path, gen.dealWithExt, GenFirst + 1) \in gen.fileItems
    /\ gen.again = Numbered(gen.path, gen.dealWithExt, GenFirst + 2)

\* A step in which the batch copied a folder: the source is a folder when
\* the operation starts, so an Overwrite has not trashed it.
FolderCopyStep ==
    /\ ItemStep
    /\ kind = COPY
    /\ LastItem'.src \in DOMAIN tree
    /\ tree[LastItem'.src].kind = FOLDER
    /\ LastItem'.resolution # SKIP
    /\ ~(LastItem'.resolution = OVERWRITE /\ IsUnder(LastItem'.src, LastItem'.dest))

\* C25: in a folder copy every entry is written when its parent path exists
\* at the destination (it existed before or was written earlier in the
\* copy), so no write is refused, and an entry that exists at a descendant's
\* destination path is left as it is.
C25_FolderCopyWritesParentsFirst ==
    [][FolderCopyStep =>
        LET r == LastItem'
        IN  /\ r.ok
            /\ \A k \in 1..Len(r.writes) :
                   \/ Depth(r.writes[k]) = 1
                   \/ ParentPath(r.writes[k]) \in DOMAIN tree
                   \/ \E j \in 1..(k - 1) : r.writes[j] = ParentPath(r.writes[k])
            /\ \A k \in 1..Len(r.writes) :
                   r.writes[k] \in DOMAIN tree =>
                       /\ r.resolution = OVERWRITE
                       /\ IsUnder(r.writes[k], r.dest)
            /\ \A p \in DOMAIN tree :
                   \/ p \in DOMAIN tree' /\ tree'[p] = tree[p]
                   \/ r.resolution = OVERWRITE /\ IsUnder(p, r.dest)
    ]_vars

\* The paths pruneDescendantsPaths was given, and those it returned.
PruneGiven == {pruneIn[i] : i \in 1..Len(pruneIn)}

PruneKept == {pruneOut[1][i] : i \in 1..Len(pruneOut[1])}

\* C26: pruneDescendantsPaths returns paths of its input, and every path of
\* the input is in the result or lies inside a path of the result.
C26_PruneCoversInput ==
    pruneOut # NoMap =>
        /\ PruneKept \subseteq PruneGiven
        /\ \A p \in PruneGiven :
               \/ p \in PruneKept
               \/ \E q \in PruneKept : q # p /\ IsUnder(p, q)

\* A folder, a folder in it and a file in that one: only the first is kept,
\* and it covers the file whose parent was pruned as well.
C26_Witness ==
    /\ pruneOut # NoMap
    /\ PruneGiven = {Path(<<nA>>), Path(<<nA, nS>>), Path(<<nA, nS, nYm>>)}
    /\ PruneKept = {Path(<<nA>>)}

\* The source paths of the map the batch runs over.
BatchSources == {pathToName[i].src : i \in 1..Len(pathToName)}

\* C27: no step of a copy batch deletes or modifies a source entry or an
\* entry of its subtree, whatever the resolution, also when the target is
\* the source path itself.
C27_CopyKeepsSources ==
    [][ItemStep /\ kind = COPY =>
        \A src \in BatchSources, p \in DOMAIN tree :
            IsUnder(p, src) => p \in DOMAIN tree' /\ tree'[p] = tree[p]
    ]_vars

\* A step in which a paste completes.
PasteCompletes == pc = "loop" /\ pc' = "done" /\ caller = "paste"

\* C28: when a paste completes, a clipboard that a copy or cut command
\* captured while the paste was suspended stays, with its kind; the paste
\* clears only the clipboard it was started with, and only if the paste was
\* a Move.
C28_PasteClearsOnlyItsOwnClipboard ==
    [][PasteCompletes =>
        /\ (~aliased /\ clipboard # NoMap)
               => (clipboard' = clipboard /\ fileOperation' = fileOperation)
        /\ clipboard' # clipboard => (aliased /\ kind = MOVE)
    ]_vars

\* C29: a batch that has started terminates: it returns or it fails, when
\* every provider call returns and every prompt is answered.
C29_BatchTerminates ==
    (pc \in {"loop", "prompt"}) ~> (pc \in {"done", "failed"})

\* A copy of a folder into itself or into a folder inside it has returned:
\* the folder and what it held were written below it.
C29_Witness ==
    /\ pc = "done"
    /\ kind = COPY
    /\ \E i \in 1..Len(log) :
           /\ log[i].ok
           /\ log[i].src # log[i].actual
           /\ IsUnder(log[i].actual, log[i].src)
           /\ Len(log[i].writes) > 1
           /\ IsUnder(destFolder, Path(<<nN, nD>>))

\* C30: the promise of openAndWait takes a value once; after a click on a
\* resolution button that value is the resolution of the button with the
\* flag of the checkbox at the click, and the Skip of onClose does not
\* replace it; a modal that has closed has delivered its result.
C30_ModalDeliversOneResult ==
    /\ modal.delivered <= 1
    /\ modal.delivered = 1 <=> modal.settled # NoMap
    /\ modal.clicked # NoMap => modal.settled = modal.clicked
    /\ (modal.n > 0 /\ ~modal.open) => modal.delivered = 1

\* Overwrite was clicked with "Don't ask again" checked; the modal closed,
\* onClose called resolvePromise a second time, and the result stayed.
C30_Witness ==
    /\ ~modal.open
    /\ modal.clicked = Held(<<OVERWRITE, TRUE>>)
    /\ modal.calls = 2
    /\ modal.settled = Held(<<OVERWRITE, TRUE>>)

====
